---- MODULE Spec2Model ----
(***************************************************************************)
(* Model of the paint canvas component (webapp/src/components/paint.rs):   *)
(* Color parsing, the two drawing tools, the CanvasState history           *)
(* (drawn_objects / undo_stack) and CanvasComponent::update.               *)
(***************************************************************************)
EXTENDS Integers, Sequences, FiniteSets, TLC

\* ------------------------------------------------------------------ bounds
\* Largest number of live shapes (drawn_objects plus undo_stack).
MaxShapes == 2
\* Largest number of leading '#' characters of a generated hex string.
MaxHashes == 2
\* Largest number of two-character groups of a generated hex string.
MaxGroups == 4

\* --------------------------------------------------------------- variables
VARIABLES
    canvas_ref,       \* NodeRef of the main canvas resolves to an element
    tool_canvas_ref,  \* NodeRef of the tooltip (preview) canvas resolves
    current_tool,     \* CanvasState.current_tool (a BrushTool or a RectTool)
    mouse_pressed,    \* CanvasState.mouse_pressed
    primary_color,    \* CanvasState.primary_color
    drawn_objects,    \* CanvasState.drawn_objects (the committed shapes)
    undo_stack,       \* CanvasState.undo_stack (the undone shapes)
    canvas,           \* draw calls shown by the main canvas
    tooltip,          \* draw calls shown by the tooltip canvas
    panicked,         \* a handler panicked: the session is aborted
    gesture,          \* history variable: the tool the last pointer-down met,
                      \* "abandoned" once a tool is selected during a
                      \* rectangle gesture, "none" after the pointer-up
    hex,              \* argument of Color::from_hex_str (used by SpecHex)
    parsed            \* its return value (used by SpecHex)

vars == <<canvas_ref, tool_canvas_ref, current_tool, mouse_pressed,
          primary_color, drawn_objects, undo_stack, canvas, tooltip,
          panicked, gesture, hex, parsed>>

\* ------------------------------------------------------------------ Color
\* Option<f64> alpha: <<>> for None, the exact fraction <<num, den>> in
\* lowest terms for Some.
RECURSIVE Gcd(_, _)
Gcd(a, b) == IF b = 0 THEN a ELSE Gcd(b, a % b)

Fraction(n, d) == <<n \div Gcd(n, d), d \div Gcd(n, d)>>

NoAlpha == <<>>

Rgb(r, g, b) == [r |-> r, g |-> g, b |-> b, a |-> NoAlpha]

Rgba(r, g, b, a) == [r |-> r, g |-> g, b |-> b, a |-> a]

\* Color::to_rgb_str
to_rgb_str(c) ==
    IF c.a = NoAlpha
    THEN <<"rgb(", c.r, ", ", c.g, ", ", c.b, ")">>
    ELSE <<"rgba(", c.r, ", ", c.g, ", ", c.b, ", ", c.a, ")">>

\* A &str is a sequence of chars; "e'" stands for a two-byte char.
WideChar == "e'"

\* The UTF-8 bytes of one char: a lead byte and a continuation byte for the
\* two-byte char, the char itself otherwise.
CharBytes(c) == IF c = WideChar THEN <<"0xC3", "0xA9">> ELSE <<c>>

IsContinuation(b) == b = "0xA9"

RECURSIVE ToBytes(_)
ToBytes(s) == IF s = <<>> THEN <<>> ELSE CharBytes(Head(s)) \o ToBytes(Tail(s))

\* str::trim_start_matches('#'): removes every leading '#'.
RECURSIVE trim_start_matches(_, _)
trim_start_matches(s, c) ==
    IF s # <<>> /\ Head(s) = c THEN trim_start_matches(Tail(s), c) ELSE s

\* char::to_digit(16), -1 for None.
to_digit(b) ==
    CASE b = "0" -> 0 [] b = "1" -> 1 [] b = "2" -> 2 [] b = "3" -> 3
      [] b = "4" -> 4 [] b = "5" -> 5 [] b = "6" -> 6 [] b = "7" -> 7
      [] b = "8" -> 8 [] b = "9" -> 9
      [] b = "a" -> 10 [] b = "b" -> 11 [] b = "c" -> 12
      [] b = "d" -> 13 [] b = "e" -> 14 [] b = "f" -> 15
      [] b = "A" -> 10 [] b = "B" -> 11 [] b = "C" -> 12
      [] b = "D" -> 13 [] b = "E" -> 14 [] b = "F" -> 15
      [] OTHER -> -1

\* A radix parse that takes the low digit first.
from_str_radix_low_digit_first(src) ==
    IF src[1] = "+"
    THEN to_digit(src[2])
    ELSE IF to_digit(src[1]) < 0 \/ to_digit(src[2]) < 0
         THEN -1
         ELSE 16 * to_digit(src[2]) + to_digit(src[1])

\* u8::from_str_radix(src, 16) of a two-byte slice: -1 for Err.  A leading
\* '+' is a sign; '-' is no sign of an unsigned type and is an invalid digit.
from_str_radix(src) ==
    IF src[1] = "+"
    THEN to_digit(src[2])
    ELSE IF to_digit(src[1]) < 0 \/ to_digit(src[2]) < 0
         THEN -1
         ELSE 16 * to_digit(src[1]) + to_digit(src[2])

\* str::is_char_boundary
is_char_boundary(bytes, i) ==
    \/ i = 0
    \/ i = Len(bytes)
    \/ i < Len(bytes) /\ ~IsContinuation(bytes[i + 1])

\* &hex[i..j] panics unless both ends are char boundaries.
SliceOk(bytes, i, j) == is_char_boundary(bytes, i) /\ is_char_boundary(bytes, j)

\* Result<Color, &'static str>, and the panic of a slice off a char boundary.
Ok(c) == [tag |-> "Ok", color |-> c, msg |-> ""]

Err(m) == [tag |-> "Err", color |-> <<>>, msg |-> m]

Panic == [tag |-> "Panic", color |-> <<>>, msg |-> ""]

\* Option<u8> alpha byte to Option<f64>: alpha.map(|x| f64::from(x) / 255.0)
AlphaOf(bytes) ==
    IF Len(bytes) = 8 /\ from_str_radix(SubSeq(bytes, 7, 8)) >= 0
    THEN Fraction(from_str_radix(SubSeq(bytes, 7, 8)), 255)
    ELSE NoAlpha

\* Color::from_hex_str
from_hex_str(s) ==
    LET bytes == ToBytes(trim_start_matches(s, "#")) IN
    IF Len(bytes) # 6 /\ Len(bytes) # 8 THEN Err("Invalid hex color format")
    ELSE IF ~SliceOk(bytes, 0, 2) THEN Panic
    ELSE IF from_str_radix(SubSeq(bytes, 1, 2)) < 0
         THEN Err("Invalid red component")
    ELSE IF ~SliceOk(bytes, 2, 4) THEN Panic
    ELSE IF from_str_radix(SubSeq(bytes, 3, 4)) < 0
         THEN Err("Invalid green component")
    ELSE IF ~SliceOk(bytes, 4, 6) THEN Panic
    ELSE IF from_str_radix(SubSeq(bytes, 5, 6)) < 0
         THEN Err("Invalid blue component")
    ELSE IF Len(bytes) = 8 /\ ~SliceOk(bytes, 6, 8) THEN Panic
    ELSE Ok(Rgba(from_str_radix(SubSeq(bytes, 1, 2)),
                 from_str_radix(SubSeq(bytes, 3, 4)),
                 from_str_radix(SubSeq(bytes, 5, 6)),
                 AlphaOf(bytes)))

\* ----------------------------------------------------------------- shapes
\* An angle rad + pi * PI radians.
Angle(rad, pi) == [rad |-> rad, pi |-> pi]

\* CanvasRenderingContext2d::fill_rect after set_fill_style_str
FillRect(x, y, w, h, style) ==
    [op |-> "fillRect", x |-> x, y |-> y, w |-> w, h |-> h, style |-> style]

\* begin_path, arc, set_fill_style_str, fill
FillArc(x, y, r, start, end, style) ==
    [op |-> "arc", x |-> x, y |-> y, r |-> r, start |-> start, end |-> end,
     style |-> style]

\* draw_rect
draw_rect(x1, y1, x2, y2, color) ==
    FillRect(x1, y1, x2 - x1, y2 - y1, to_rgb_str(color))

\* draw_at_position
draw_at_position(x, y, color) ==
    FillArc(x, y, 5, Angle(1, 0), Angle(0, 2), to_rgb_str(color))

\* struct Rect, boxed: id is the identity of the Box.
Rect(id, x1, y1, x2, y2, color) ==
    [kind |-> "Rect", id |-> id, x1 |-> x1, y1 |-> y1, x2 |-> x2, y2 |-> y2,
     color |-> color]

\* struct Circle, boxed.
Circle(id, x, y, r, color) ==
    [kind |-> "Circle", id |-> id, x |-> x, y |-> y, r |-> r, color |-> color]

\* AbstractShape::draw
shape_draw(s) ==
    IF s.kind = "Rect"
    THEN draw_rect(s.x1, s.y1, s.x2, s.y2, s.color)
    ELSE draw_at_position(s.x, s.y, s.color)

\* ------------------------------------------------------------------ tools
\* struct BrushTool
BrushTool(size, color) == [kind |-> "BrushTool", size |-> size, color |-> color]

\* struct RectTool
RectTool(x, y, color, tooltip_color) ==
    [kind |-> "RectTool", x |-> x, y |-> y, color |-> color,
     tooltip_color |-> tooltip_color]

\* What a DrawingTool method leaves behind: the tool, the shape list it was
\* handed and the content of the tooltip canvas.
Effect(tool, objs, tip) == [tool |-> tool, objs |-> objs, tooltip |-> tip]

\* clear_canvas(tooltip_canvas, 500.0, 500.0): the tooltip canvas is 500 by
\* 500, so nothing is left on it.
clear_canvas(tip) == <<>>

\* A draw whose dabs share the tool's color with the dabs before them.
BrushTool_draw_recolors(tool, objs, tip, p, id) ==
    Effect(tool,
           Append([i \in 1 .. Len(objs) |-> [objs[i] EXCEPT !.color = tool.color]],
                  Circle(id, p[1], p[2], tool.size, tool.color)),
           tip)

\* BrushTool::draw; id is the Box the new shape is put in.
BrushTool_draw(tool, objs, tip, p, id) ==
    Effect(tool, Append(objs, Circle(id, p[1], p[2], tool.size, tool.color)), tip)

\* A start_draw that leaves the first dab to the first move.
BrushTool_start_draw_no_dab(tool, objs, tip, p, id) == Effect(tool, objs, tip)

\* BrushTool::start_draw
BrushTool_start_draw(tool, objs, tip, p, id) ==
    BrushTool_draw(tool, objs, tip, p, id)

\* BrushTool::end_draw
BrushTool_end_draw(tool, objs, tip, p, id) == Effect(tool, objs, tip)

\* A draw that commits the candidate rectangle instead of previewing it.
RectTool_draw_commits(tool, objs, tip, p, id) ==
    Effect(tool,
           Append(objs, Rect(id, tool.x, tool.y, p[1], p[2], tool.color)),
           clear_canvas(tip))

\* RectTool::draw
RectTool_draw(tool, objs, tip, p, id) ==
    Effect(tool, objs,
           Append(clear_canvas(tip),
                  draw_rect(tool.x, tool.y, p[1], p[2], tool.tooltip_color)))

\* RectTool::start_draw
RectTool_start_draw(tool, objs, tip, p, id) ==
    Effect([tool EXCEPT !.x = p[1], !.y = p[2]], objs, tip)

\* RectTool::end_draw
RectTool_end_draw(tool, objs, tip, p, id) ==
    Effect(tool,
           Append(objs, Rect(id, tool.x, tool.y, p[1], p[2], tool.color)),
           clear_canvas(tip))

\* DrawingTool::change_primary_color, of both tools
change_primary_color(tool, color) == [tool EXCEPT !.color = color]

\* Dynamic dispatch on Box<dyn DrawingTool>.
start_draw(tool, objs, tip, p, id) ==
    IF tool.kind = "BrushTool"
    THEN BrushTool_start_draw(tool, objs, tip, p, id)
    ELSE RectTool_start_draw(tool, objs, tip, p, id)

draw(tool, objs, tip, p, id) ==
    IF tool.kind = "BrushTool"
    THEN BrushTool_draw(tool, objs, tip, p, id)
    ELSE RectTool_draw(tool, objs, tip, p, id)

end_draw(tool, objs, tip, p, id) ==
    IF tool.kind = "BrushTool"
    THEN BrushTool_end_draw(tool, objs, tip, p, id)
    ELSE RectTool_end_draw(tool, objs, tip, p, id)

\* ------------------------------------------------------------ CanvasState
\* CanvasState::new
InitialPrimary == Rgb(0, 0, 255)

InitialTooltipColor == Rgba(200, 0, 255, Fraction(1, 2))

InitialTool == BrushTool(5, Rgb(0, 0, 255))

\* CanvasState.tooltip_color is never assigned after construction.
tooltip_color == InitialTooltipColor

White == Rgb(255, 255, 255)

\* CanvasComponent.width, CanvasComponent.height
width == 500

height == 500

\* ----------------------------------------------------------------- inputs
\* offset_x(), offset_y() of the pointer events: where the pointer goes
\* down, where it is seen moving and where it is released.
DownPoints == {<<50, 20>>}

MovePoints == {<<30, 40>>}

UpPoints == {<<10, 60>>}

\* Values of the color input element when its change event fires.
ColorInputs ==
    { <<"#", "f", "f", "0", "0", "0", "0">>,
      <<"#", "1", "2", "3", "4">> }

\* ------------------------------------------------------------- the update
\* The Box of the next shape: shapes are freed only all together (Clear),
\* so the live ones are numbered 1..n in the order they were made.
NextBox == Len(drawn_objects) + Len(undo_stack) + 1

\* The model keeps at most MaxShapes shapes alive.
Fits(objs) == Len(objs) + Len(undo_stack) <= MaxShapes

\* Both canvases resolve (the two `if let Some` of update) and the session
\* has not been aborted by a panic.
Ready == canvas_ref /\ tool_canvas_ref /\ ~panicked

\* A repaint that draws the newest object first.
Repaint_newest_first(objs) ==
    <<draw_rect(0, 0, width, height, White)>>
        \o [i \in 1 .. Len(objs) |-> shape_draw(objs[Len(objs) + 1 - i])]

\* The repaint at the end of update: white over the whole canvas, then every
\* drawn object in order.
Repaint(objs) ==
    <<draw_rect(0, 0, width, height, White)>>
        \o [i \in 1 .. Len(objs) |-> shape_draw(objs[i])]

Init ==
    /\ canvas_ref = FALSE
    /\ tool_canvas_ref = FALSE
    /\ current_tool = InitialTool
    /\ mouse_pressed = FALSE
    /\ primary_color = InitialPrimary
    /\ drawn_objects = <<>>
    /\ undo_stack = <<>>
    /\ canvas = <<>>
    /\ tooltip = <<>>
    /\ panicked = FALSE
    /\ gesture = "none"
    /\ hex = <<>>
    /\ parsed = [tag |-> "Pending", color |-> <<>>, msg |-> ""]

\* CanvasComponent::rendered on the first render: both canvases are mounted
\* and sized, the main one is painted white.
Rendered ==
    /\ ~canvas_ref
    /\ canvas_ref' = TRUE
    /\ tool_canvas_ref' = TRUE
    /\ canvas' = <<draw_rect(0, 0, width, height, White)>>
    /\ UNCHANGED <<current_tool, mouse_pressed, primary_color, drawn_objects,
                   undo_stack, tooltip, panicked, gesture, hex, parsed>>

\* An update that unwraps the missing canvas and aborts.
UpdateNotReady_panics ==
    /\ ~panicked
    /\ ~(canvas_ref /\ tool_canvas_ref)
    /\ panicked' = TRUE
    /\ UNCHANGED <<canvas_ref, tool_canvas_ref, current_tool, mouse_pressed,
                   primary_color, drawn_objects, undo_stack, canvas, tooltip,
                   gesture, hex, parsed>>

\* update() of any message while a canvas reference is not ready: log,
\* return false.
UpdateNotReady ==
    /\ ~panicked
    /\ ~(canvas_ref /\ tool_canvas_ref)
    /\ UNCHANGED <<canvas_ref, tool_canvas_ref, current_tool, mouse_pressed,
                   primary_color, drawn_objects, undo_stack, canvas, tooltip,
                   panicked, gesture, hex, parsed>>

\* Msg::MouseDown
MouseDown(p) ==
    LET e == start_draw(current_tool, drawn_objects, tooltip, p, NextBox) IN
    /\ Ready
    /\ Fits(e.objs)
    /\ mouse_pressed' = TRUE
    /\ current_tool' = e.tool
    /\ drawn_objects' = e.objs
    /\ tooltip' = e.tooltip
    /\ canvas' = Repaint(e.objs)
    /\ gesture' = current_tool.kind
    /\ UNCHANGED <<canvas_ref, tool_canvas_ref, primary_color, undo_stack,
                   panicked, hex, parsed>>

\* Msg::MouseMove if self.state.mouse_pressed
MouseMove(p) ==
    LET e == draw(current_tool, drawn_objects, tooltip, p, NextBox) IN
    /\ Ready
    /\ mouse_pressed
    /\ Fits(e.objs)
    /\ current_tool' = e.tool
    /\ drawn_objects' = e.objs
    /\ tooltip' = e.tooltip
    /\ canvas' = Repaint(e.objs)
    /\ UNCHANGED <<canvas_ref, tool_canvas_ref, mouse_pressed, primary_color,
                   undo_stack, panicked, gesture, hex, parsed>>

\* Msg::MouseMove while not pressed: the `_` arm logs and returns false.
MouseMoveIdle(p) ==
    /\ Ready
    /\ ~mouse_pressed
    /\ UNCHANGED <<canvas_ref, tool_canvas_ref, current_tool, mouse_pressed,
                   primary_color, drawn_objects, undo_stack, canvas, tooltip,
                   panicked, gesture, hex, parsed>>

\* Msg::MouseUp
MouseUp(p) ==
    LET e == end_draw(current_tool, drawn_objects, tooltip, p, NextBox) IN
    /\ Ready
    /\ Fits(e.objs)
    /\ mouse_pressed' = FALSE
    /\ current_tool' = e.tool
    /\ drawn_objects' = e.objs
    /\ tooltip' = e.tooltip
    /\ canvas' = Repaint(e.objs)
    /\ gesture' = "none"
    /\ UNCHANGED <<canvas_ref, tool_canvas_ref, primary_color, undo_stack,
                   panicked, hex, parsed>>

\* The two stacks as a pair.
History(objs, undone) == [objs |-> objs, undone |-> undone]

\* A clear that forgets the redo buffer.
ClearOf_keeps_undone(objs, undone) == History(<<>>, undone)

\* The body of Msg::ClearCanvas: both vectors are cleared.
ClearOf(objs, undone) == History(<<>>, <<>>)

\* An undo that queues the undone shape behind the older ones.
UndoOf_queues(objs, undone) ==
    IF objs = <<>>
    THEN History(objs, undone)
    ELSE History(SubSeq(objs, 1, Len(objs) - 1), <<objs[Len(objs)]>> \o undone)

\* An undo that copies the newest drawn object instead of moving it.
UndoOf_copies(objs, undone) ==
    IF objs = <<>>
    THEN History(objs, undone)
    ELSE History(objs, Append(undone, objs[Len(objs)]))

\* The body of Msg::Undo: pop drawn_objects, push onto undo_stack.
UndoOf(objs, undone) ==
    IF objs = <<>>
    THEN History(objs, undone)
    ELSE History(SubSeq(objs, 1, Len(objs) - 1), Append(undone, objs[Len(objs)]))

\* A redo that, finding nothing to redo, drops the newest drawn object.
RedoOf_pops_drawn(objs, undone) ==
    IF undone = <<>>
    THEN History(SubSeq(objs, 1, Len(objs) - 1), undone)
    ELSE History(Append(objs, undone[Len(undone)]),
                 SubSeq(undone, 1, Len(undone) - 1))

\* A redo that brings back the oldest undone object instead of the newest.
RedoOf_takes_oldest(objs, undone) ==
    IF undone = <<>>
    THEN History(objs, undone)
    ELSE History(Append(objs, Head(undone)), Tail(undone))

\* The body of Msg::Redo: pop undo_stack, push onto drawn_objects.
RedoOf(objs, undone) ==
    IF undone = <<>>
    THEN History(objs, undone)
    ELSE History(Append(objs, undone[Len(undone)]),
                 SubSeq(undone, 1, Len(undone) - 1))

\* A save that also ends the gesture in progress.
SaveImage_releases ==
    /\ Ready
    /\ canvas' = Repaint(drawn_objects)
    /\ mouse_pressed' = FALSE
    /\ UNCHANGED <<canvas_ref, tool_canvas_ref, current_tool, primary_color,
                   drawn_objects, undo_stack, tooltip, panicked, gesture, hex,
                   parsed>>

\* Msg::SaveImage: the data URL of the main canvas goes to a download link;
\* no state of the component is assigned, the repaint follows.
SaveImage ==
    /\ Ready
    /\ canvas' = Repaint(drawn_objects)
    /\ UNCHANGED <<canvas_ref, tool_canvas_ref, current_tool, mouse_pressed,
                   primary_color, drawn_objects, undo_stack, tooltip, panicked,
                   gesture, hex, parsed>>

\* Msg::ClearCanvas
ClearCanvas ==
    LET h == ClearOf(drawn_objects, undo_stack) IN
    /\ Ready
    /\ drawn_objects' = h.objs
    /\ undo_stack' = h.undone
    /\ canvas' = Repaint(h.objs)
    /\ UNCHANGED <<canvas_ref, tool_canvas_ref, current_tool, mouse_pressed,
                   primary_color, tooltip, panicked, gesture, hex, parsed>>

\* Msg::ChangeColor: expect() panics on Err (and the parser itself may
\* panic); on Ok the color goes to the state and to the tool.  Returns false
\* before the repaint.
ChangeColor(value) ==
    LET r == from_hex_str(value) IN
    /\ Ready
    /\ IF r.tag = "Ok"
       THEN /\ primary_color' = r.color
            /\ current_tool' = change_primary_color(current_tool, r.color)
            /\ UNCHANGED panicked
       ELSE /\ panicked' = TRUE
            /\ UNCHANGED <<primary_color, current_tool>>
    /\ UNCHANGED <<canvas_ref, tool_canvas_ref, mouse_pressed, drawn_objects,
                   undo_stack, canvas, tooltip, gesture, hex, parsed>>

\* The tool Msg::SelectRectTool installs.
NewRectTool(primary, tip_color) == RectTool(0, 0, primary, tip_color)

\* A brush seeded with the color of construction time, not the current one.
NewBrushTool_initial_color(primary) == BrushTool(0, InitialPrimary)

\* The tool Msg::SelectBrushTool installs.
NewBrushTool(primary) == BrushTool(0, primary)

\* A tool selection while a gesture begun with the rectangle tool is in
\* progress abandons that gesture.
AfterSelect(g) == IF mouse_pressed /\ g = "RectTool" THEN "abandoned" ELSE g

\* Msg::SelectRectTool (returns false before the repaint)
SelectRectTool ==
    /\ Ready
    /\ current_tool' = NewRectTool(primary_color, tooltip_color)
    /\ gesture' = AfterSelect(gesture)
    /\ UNCHANGED <<canvas_ref, tool_canvas_ref, mouse_pressed, primary_color,
                   drawn_objects, undo_stack, canvas, tooltip, panicked, hex,
                   parsed>>

\* Msg::SelectBrushTool (returns false before the repaint)
SelectBrushTool ==
    /\ Ready
    /\ current_tool' = NewBrushTool(primary_color)
    /\ gesture' = AfterSelect(gesture)
    /\ UNCHANGED <<canvas_ref, tool_canvas_ref, mouse_pressed, primary_color,
                   drawn_objects, undo_stack, canvas, tooltip, panicked, hex,
                   parsed>>

\* Msg::Undo
Undo ==
    LET h == UndoOf(drawn_objects, undo_stack) IN
    /\ Ready
    /\ drawn_objects' = h.objs
    /\ undo_stack' = h.undone
    /\ canvas' = Repaint(h.objs)
    /\ UNCHANGED <<canvas_ref, tool_canvas_ref, current_tool, mouse_pressed,
                   primary_color, tooltip, panicked, gesture, hex, parsed>>

\* Msg::Redo
Redo ==
    LET h == RedoOf(drawn_objects, undo_stack) IN
    /\ Ready
    /\ drawn_objects' = h.objs
    /\ undo_stack' = h.undone
    /\ canvas' = Repaint(h.objs)
    /\ UNCHANGED <<canvas_ref, tool_canvas_ref, current_tool, mouse_pressed,
                   primary_color, tooltip, panicked, gesture, hex, parsed>>

\* Msg::ChangeTool has no callback in view() and its payload type is
\* private to the module: no such message is ever sent.
Next ==
    \/ Rendered
    \/ UpdateNotReady
    \/ \E p \in DownPoints : MouseDown(p)
    \/ \E p \in MovePoints : MouseMove(p)
    \/ \E p \in MovePoints : MouseMoveIdle(p)
    \/ \E p \in UpPoints : MouseUp(p)
    \/ SaveImage
    \/ ClearCanvas
    \/ \E value \in ColorInputs : ChangeColor(value)
    \/ SelectRectTool
    \/ SelectBrushTool
    \/ Undo
    \/ Redo

Spec == Init /\ [][Next]_vars

\* --------------------------------------------- the parser on its own
\* Two-char groups and odd tails the generated strings are made of.
HexGroups ==
    { <<"1", "f">>, <<"A", "0">>, <<"F", "f">>, <<"0", "9">>,
      <<"G", "G">>, <<"+", "7">>, <<"2", WideChar>> }

HexTails == { <<>>, <<"3">> }

RECURSIVE Hashes(_)
Hashes(n) == IF n = 0 THEN <<>> ELSE <<"#">> \o Hashes(n - 1)

RECURSIVE GroupStrings(_)
GroupStrings(n) ==
    IF n = 0
    THEN { <<>> }
    ELSE { <<>> } \cup { g \o t : g \in HexGroups, t \in GroupStrings(n - 1) }

HexStrings ==
    { Hashes(k) \o b \o t :
        k \in 0 .. MaxHashes, b \in GroupStrings(MaxGroups), t \in HexTails }

Pending == [tag |-> "Pending", color |-> <<>>, msg |-> ""]

InitHex ==
    /\ canvas_ref = FALSE
    /\ tool_canvas_ref = FALSE
    /\ current_tool = InitialTool
    /\ mouse_pressed = FALSE
    /\ primary_color = InitialPrimary
    /\ drawn_objects = <<>>
    /\ undo_stack = <<>>
    /\ canvas = <<>>
    /\ tooltip = <<>>
    /\ panicked = FALSE
    /\ gesture = "none"
    /\ hex \in HexStrings
    /\ parsed = Pending

\* One call of Color::from_hex_str.
ParseHex ==
    /\ parsed.tag = "Pending"
    /\ parsed' = from_hex_str(hex)
    /\ UNCHANGED <<canvas_ref, tool_canvas_ref, current_tool, mouse_pressed,
                   primary_color, drawn_objects, undo_stack, canvas, tooltip,
                   panicked, gesture, hex>>

NextHex == ParseHex

SpecHex == InitHex /\ [][NextHex]_vars

\* ---------------------------------------------------------------- claims
LiveShapes == Len(drawn_objects) + Len(undo_stack)

\* A step that puts a new shape into drawn_objects (no step frees one shape
\* alone, so the number of live shapes grows exactly then).
CommitsShape == Len(drawn_objects') + Len(undo_stack') > LiveShapes

LastOf(seq) == seq[Len(seq)]

RECURSIVE Reverse(_)
Reverse(seq) ==
    IF seq = <<>> THEN <<>> ELSE Append(Reverse(Tail(seq)), Head(seq))

Red == Rgb(255, 0, 0)

\* C1: every commit of a new shape through drawing leaves the undone stack
\* empty.
C1_CommitClearsUndone == [][CommitsShape => undo_stack' = <<>>]_vars

RECURSIVE UndoTimes(_, _)
UndoTimes(h, n) ==
    IF n = 0 THEN h
    ELSE LET g == UndoTimes(h, n - 1) IN UndoOf(g.objs, g.undone)

RECURSIVE RedoTimes(_, _)
RedoTimes(h, n) ==
    IF n = 0 THEN h
    ELSE LET g == RedoTimes(h, n - 1) IN RedoOf(g.objs, g.undone)

\* C2: with P committed and nothing undone, len(P) Undos empty
\* drawn_objects and leave P reversed on undo_stack; the k-th Redo after
\* them has restored the first k shapes of P, and len(P) Redos end with
\* drawn_objects = P and undo_stack empty.
C2_UndoAllRedoAll ==
    undo_stack = <<>> =>
        LET P == drawn_objects
            n == Len(P)
            u == UndoTimes(History(P, <<>>), n)
        IN  /\ \A k \in 0 .. n :
                UndoTimes(History(P, <<>>), k)
                    = History(SubSeq(P, 1, n - k), Reverse(SubSeq(P, n - k + 1, n)))
            /\ u = History(<<>>, Reverse(P))
            /\ \A k \in 0 .. n :
                RedoTimes(u, k)
                    = History(SubSeq(P, 1, k), Reverse(SubSeq(P, k + 1, n)))
            /\ RedoTimes(u, n) = History(P, <<>>)

\* Two different shapes are committed and nothing is undone: the sequence P
\* the Undos and Redos of C2 run over.
C2_Witness ==
    /\ undo_stack = <<>>
    /\ Len(drawn_objects) >= 2
    /\ drawn_objects[1].kind # drawn_objects[2].kind

\* C3: once a tool is selected in the middle of a rectangle gesture, no step
\* adds a shape until the pointer is released.
C3_AbandonedGestureCommitsNothing ==
    [][gesture = "abandoned" => ~CommitsShape]_vars

\* C4: in a rectangle gesture the pointer-down records the anchor and
\* commits nothing, a pointer-move commits nothing and shows exactly the
\* candidate anchor -> point on the tooltip canvas, nothing but a pointer-down
\* moves the anchor while the gesture lasts, and the pointer-up appends
\* exactly one Rect anchor -> point in the primary color and clears the
\* tooltip canvas.
C4_RectGestureCommitsOne ==
    [][ /\ \A p \in DownPoints :
            (MouseDown(p) /\ current_tool.kind = "RectTool") =>
                /\ drawn_objects' = drawn_objects
                /\ undo_stack' = undo_stack
                /\ gesture' = "RectTool"
                /\ <<current_tool'.x, current_tool'.y>> = p
        /\ \A p \in MovePoints :
            (MouseMove(p) /\ current_tool.kind = "RectTool") =>
                /\ drawn_objects' = drawn_objects
                /\ undo_stack' = undo_stack
                /\ tooltip' = <<draw_rect(current_tool.x, current_tool.y,
                                          p[1], p[2], InitialTooltipColor)>>
        /\ (gesture = "RectTool" /\ gesture' = "RectTool"
                /\ ~(\E p \in DownPoints : MouseDown(p))) =>
                /\ current_tool'.kind = "RectTool"
                /\ current_tool'.x = current_tool.x
                /\ current_tool'.y = current_tool.y
        /\ \A p \in UpPoints :
            (MouseUp(p) /\ current_tool.kind = "RectTool") =>
                /\ drawn_objects' =
                       Append(drawn_objects,
                              Rect(LiveShapes + 1, current_tool.x, current_tool.y,
                                   p[1], p[2], primary_color))
                /\ undo_stack' = undo_stack
                /\ tooltip' = <<>>
      ]_vars

\* A finished rectangle gesture, drawn after a color change: the newest
\* shape runs from the pointer-down point to the pointer-up point in red,
\* the tooltip canvas is clear and the pointer is up.
C4_Witness ==
    /\ ~mouse_pressed
    /\ gesture = "none"
    /\ tooltip = <<>>
    /\ drawn_objects # <<>>
    /\ LastOf(drawn_objects).kind = "Rect"
    /\ <<LastOf(drawn_objects).x1, LastOf(drawn_objects).y1>> \in DownPoints
    /\ <<LastOf(drawn_objects).x2, LastOf(drawn_objects).y2>> \in UpPoints
    /\ LastOf(drawn_objects).color = Red

\* C5: with the brush, the pointer-down and every pointer-move while pressed
\* append exactly one Circle at the event's point in the primary color of
\* that moment, and the pointer-up commits nothing.
C5_BrushGestureDabs ==
    [][ /\ \A p \in DownPoints :
            (MouseDown(p) /\ current_tool.kind = "BrushTool") =>
                /\ drawn_objects' =
                       Append(drawn_objects,
                              Circle(LiveShapes + 1, p[1], p[2],
                                     current_tool.size, primary_color))
                /\ undo_stack' = undo_stack
        /\ \A p \in MovePoints :
            (MouseMove(p) /\ current_tool.kind = "BrushTool") =>
                /\ drawn_objects' =
                       Append(drawn_objects,
                              Circle(LiveShapes + 1, p[1], p[2],
                                     current_tool.size, primary_color))
                /\ undo_stack' = undo_stack
        /\ \A p \in UpPoints :
            (MouseUp(p) /\ current_tool.kind = "BrushTool") =>
                /\ drawn_objects' = drawn_objects
                /\ undo_stack' = undo_stack
      ]_vars

\* A finished brush gesture of a pointer-down and a pointer-move with a
\* color change in between: a blue dab at the down point, then a red dab at
\* the move point, and the pointer is up.
C5_Witness ==
    /\ ~mouse_pressed
    /\ current_tool.kind = "BrushTool"
    /\ undo_stack = <<>>
    /\ Len(drawn_objects) = 2
    /\ drawn_objects[1].kind = "Circle"
    /\ drawn_objects[2].kind = "Circle"
    /\ <<drawn_objects[1].x, drawn_objects[1].y>> \in DownPoints
    /\ <<drawn_objects[2].x, drawn_objects[2].y>> \in MovePoints
    /\ drawn_objects[1].color = InitialPrimary
    /\ drawn_objects[2].color = Red

\* C6: a color change whose hex string does not parse is not fatal and
\* changes neither the colors nor the history.
C6_BadColorIsNotFatal ==
    [][ \A value \in ColorInputs :
            (ChangeColor(value) /\ from_hex_str(value).tag # "Ok") =>
                /\ ~panicked'
                /\ UNCHANGED <<primary_color, current_tool, drawn_objects,
                               undo_stack>>
      ]_vars

HexDigitChars ==
    {"0", "1", "2", "3", "4", "5", "6", "7", "8", "9",
     "a", "b", "c", "d", "e", "f", "A", "B", "C", "D", "E", "F"}

StripLeadingHash(str) ==
    IF str # <<>> /\ Head(str) = "#" THEN Tail(str) ELSE str

SixOrEightHexDigits(str) ==
    /\ Len(str) \in {6, 8}
    /\ \A i \in 1 .. Len(str) : str[i] \in HexDigitChars

ComponentErrors ==
    {"Invalid red component", "Invalid green component",
     "Invalid blue component", "Invalid alpha component"}

\* C7: for every input that, after one leading '#' is stripped, is not
\* exactly 6 or 8 hex digits, from_hex_str returns an error: the format
\* error for a wrong length, a component error otherwise.
C7_MalformedHexIsAnError ==
    (parsed.tag # "Pending" /\ ~SixOrEightHexDigits(StripLeadingHash(hex))) =>
        /\ parsed.tag = "Err"
        /\ Len(StripLeadingHash(hex)) \notin {6, 8} =>
               parsed.msg = "Invalid hex color format"
        /\ Len(StripLeadingHash(hex)) \in {6, 8} =>
               parsed.msg \in ComponentErrors

\* C8: Clear leaves both stacks empty, and an Undo or a Redo handled when
\* both are empty (as right after Clear) leaves them empty.
C8_ClearEmptiesBoth ==
    [][ /\ ClearCanvas => (drawn_objects' = <<>> /\ undo_stack' = <<>>)
        /\ ((Undo \/ Redo) /\ drawn_objects = <<>> /\ undo_stack = <<>>) =>
               (drawn_objects' = <<>> /\ undo_stack' = <<>>)
      ]_vars

\* The history was cleared in the middle of a brush gesture: the gesture's
\* pointer-down committed a dab, yet both stacks are empty while the
\* pointer is still down.
C8_Witness ==
    /\ mouse_pressed
    /\ gesture = "BrushTool"
    /\ drawn_objects = <<>>
    /\ undo_stack = <<>>

\* C9: Undo with nothing drawn and Redo with nothing undone change neither
\* stack, nor the tool, the primary color or the pointer-down flag, and do
\* not abort the session.
C9_EmptyUndoRedoIsNoOp ==
    [][ ((Undo /\ drawn_objects = <<>>) \/ (Redo /\ undo_stack = <<>>)) =>
            /\ UNCHANGED <<drawn_objects, undo_stack, current_tool,
                           primary_color, mouse_pressed>>
            /\ ~panicked'
      ]_vars

\* Nothing is undone while shapes are drawn, a rectangle gesture is in
\* progress and the color was changed: a Redo handled here has nothing to
\* redo.
C9_Witness ==
    /\ Ready
    /\ undo_stack = <<>>
    /\ drawn_objects # <<>>
    /\ mouse_pressed
    /\ current_tool.kind = "RectTool"
    /\ primary_color = Red

\* C10: the active tool's color is the controller's primary color, which is
\* the initial color or a color parsed from a color input; every shape a
\* step commits carries it.
C10_ToolColorIsPrimary ==
    /\ [](/\ current_tool.color = primary_color
          /\ primary_color \in
                 {InitialPrimary}
                     \cup {from_hex_str(v).color :
                             v \in {w \in ColorInputs : from_hex_str(w).tag = "Ok"}})
    /\ [][CommitsShape => LastOf(drawn_objects').color = primary_color]_vars

\* A tool selected after a color change: a fresh rectangle tool (anchor at
\* the origin) carrying red.
C10_Witness ==
    /\ current_tool.kind = "RectTool"
    /\ current_tool.x = 0
    /\ current_tool.y = 0
    /\ current_tool.color = Red
    /\ primary_color = Red

\* C11: with both canvases attached the main canvas shows exactly the white
\* fill of the whole canvas followed by the drawing of every drawn object,
\* in the order of drawn_objects; nothing else and nothing missing.
C11_MainCanvasShowsCommitted ==
    (canvas_ref /\ tool_canvas_ref) =>
        /\ Len(canvas) = Len(drawn_objects) + 1
        /\ canvas[1] = FillRect(0, 0, 500, 500, to_rgb_str(Rgb(255, 255, 255)))
        /\ \A i \in 1 .. Len(drawn_objects) :
               canvas[i + 1] = shape_draw(drawn_objects[i])

\* An undone shape is not on the main canvas: two shapes of different kinds
\* were made, one is drawn and shown, the other is on the undo stack.
C11_Witness ==
    /\ canvas_ref /\ tool_canvas_ref
    /\ Len(drawn_objects) = 1
    /\ Len(undo_stack) = 1
    /\ drawn_objects[1].kind # undo_stack[1].kind
    /\ Len(canvas) = 2

\* The shapes of both stacks.
AllShapes == {drawn_objects[i] : i \in 1 .. Len(drawn_objects)}
                 \cup {undo_stack[i] : i \in 1 .. Len(undo_stack)}

\* C12: no step changes a shape that exists: every shape of the two stacks
\* after a step whose Box was in them before is the same shape, with the
\* same coordinates, radius and color; a step that changes primary_color
\* leaves both stacks as they were.
C12_ShapesAreImmutable ==
    [][ /\ \A t \in AllShapes' :
               (\E s \in AllShapes : s.id = t.id) => t \in AllShapes
        /\ primary_color' # primary_color =>
               UNCHANGED <<drawn_objects, undo_stack>>
      ]_vars

\* A shape committed before the color change keeps its color while a shape
\* committed after it carries the new one, the older one being undone.
C12_Witness ==
    /\ primary_color = Red
    /\ Len(drawn_objects) = 1
    /\ Len(undo_stack) = 1
    /\ drawn_objects[1].id = 2
    /\ drawn_objects[1].color = Red
    /\ undo_stack[1].id = 1
    /\ undo_stack[1].color = InitialPrimary

\* C13: every Box occurs once in drawn_objects and undo_stack taken
\* together: the two are disjoint and neither holds a shape twice.
C13_StacksAreDisjoint ==
    LET all == drawn_objects \o undo_stack IN
    \A i, j \in 1 .. Len(all) : all[i].id = all[j].id => i = j

\* Both stacks are full of shapes at once: one drawn, one undone, the
\* pointer down in a gesture.
C13_Witness ==
    /\ drawn_objects # <<>>
    /\ undo_stack # <<>>
    /\ mouse_pressed
    /\ LiveShapes = MaxShapes

\* The Circles of drawn_objects, by their place on the main canvas.
DrawnCircles ==
    {i \in 1 .. Len(drawn_objects) : drawn_objects[i].kind = "Circle"}

\* C14: every Circle of drawn_objects is on the main canvas as the fill of
\* an arc centred at its (x, y), of the radius stored in it, from angle 0
\* over a whole turn.
C14_CircleIsFullDiscOfItsRadius ==
    (canvas_ref /\ tool_canvas_ref) =>
        \A i \in DrawnCircles :
            LET c == drawn_objects[i] IN
            canvas[i + 1] = FillArc(c.x, c.y, c.r, Angle(0, 0), Angle(0, 2),
                                    to_rgb_str(c.color))

\* C17: a pointer-move or a pointer-up while mouse_pressed is false leaves
\* drawn_objects and undo_stack as they were, and every Rect of the two
\* stacks is anchored at the point of a pointer-down.
C17_IdlePointerEventsCommitNothing ==
    /\ [][ /\ \A p \in MovePoints :
                  MouseMoveIdle(p) => UNCHANGED <<drawn_objects, undo_stack>>
           /\ \A p \in UpPoints :
                  (MouseUp(p) /\ ~mouse_pressed) =>
                      UNCHANGED <<drawn_objects, undo_stack>>
         ]_vars
    /\ [](\A s \in AllShapes :
              s.kind = "Rect" => <<s.x1, s.y1>> \in DownPoints)

\* C18: whenever mouse_pressed is false the tooltip canvas is empty.
C18_PreviewEmptyWhenIdle == ~mouse_pressed => tooltip = <<>>

LowerHex ==
    <<"0", "1", "2", "3", "4", "5", "6", "7", "8", "9",
      "a", "b", "c", "d", "e", "f">>

UpperHex ==
    <<"0", "1", "2", "3", "4", "5", "6", "7", "8", "9",
      "A", "B", "C", "D", "E", "F">>

\* The two-digit group is a hex encoding of the byte n, in either case.
Encodes(n, group) ==
    /\ group[1] \in {LowerHex[(n \div 16) + 1], UpperHex[(n \div 16) + 1]}
    /\ group[2] \in {LowerHex[(n % 16) + 1], UpperHex[(n % 16) + 1]}

\* The k-th two-digit group of a string.
GroupOf(str, k) == SubSeq(str, 2 * k - 1, 2 * k)

\* C15: when the input, with or without one leading '#', is the 6- or
\* 8-digit hex encoding of bytes, from_hex_str returns a Color whose red,
\* green and blue are the bytes of the first three groups; a 6-digit input
\* gives no alpha, an 8-digit input gives the alpha the fourth byte
\* divided by 255.
C15_ParseHexRoundTrips ==
    LET body == StripLeadingHash(hex) IN
    (parsed.tag # "Pending" /\ SixOrEightHexDigits(body)) =>
        /\ parsed.tag = "Ok"
        /\ \A n \in 0 .. 255 :
               /\ Encodes(n, GroupOf(body, 1)) => parsed.color.r = n
               /\ Encodes(n, GroupOf(body, 2)) => parsed.color.g = n
               /\ Encodes(n, GroupOf(body, 3)) => parsed.color.b = n
        /\ Len(body) = 6 => parsed.color.a = NoAlpha
        /\ Len(body) = 8 =>
               /\ parsed.color.a # NoAlpha
               /\ \A n \in 0 .. 255 :
                      Encodes(n, GroupOf(body, 4)) =>
                          parsed.color.a[1] * 255 = n * parsed.color.a[2]

\* "#1fA00909" has been parsed: red 31, green 160, blue 9, alpha 9/255.
C15_Witness ==
    /\ hex = <<"#", "1", "f", "A", "0", "0", "9", "0", "9">>
    /\ parsed.tag = "Ok"
    /\ parsed.color.r = 31
    /\ parsed.color.g = 160
    /\ parsed.color.b = 9
    /\ parsed.color.a = <<3, 85>>

\* C16: an event handled while a canvas is not attached changes nothing and
\* is not fatal: no state without both canvases is a panicked one, nothing
\* is painted and no state of the component has changed there, and the
\* first render that follows leaves the component ready for events.
C16_UnattachedIsRecoverable ==
    /\ [](~(canvas_ref /\ tool_canvas_ref) =>
              /\ ~panicked
              /\ canvas = <<>> /\ tooltip = <<>>
              /\ drawn_objects = <<>> /\ undo_stack = <<>>
              /\ ~mouse_pressed
              /\ current_tool = InitialTool
              /\ primary_color = InitialPrimary)
    /\ [][ /\ UpdateNotReady => (~panicked' /\ UNCHANGED vars)
           /\ Rendered => (canvas_ref' /\ tool_canvas_ref' /\ ~panicked')
         ]_vars

\* No canvas is attached and an event can be handled in that state.
C16_Witness ==
    /\ ~canvas_ref
    /\ ~tool_canvas_ref
    /\ ~panicked
    /\ ENABLED UpdateNotReady

\* C19: in every state, Undo then Redo with drawn_objects non-empty, and
\* Redo then Undo with undo_stack non-empty, give back both stacks as they
\* were; the Undo and Redo steps apply these operations and leave the
\* number of shapes in the two stacks together unchanged.
C19_UndoRedoAreInverses ==
    /\ [](LET h == History(drawn_objects, undo_stack)
              u == UndoOf(drawn_objects, undo_stack)
              r == RedoOf(drawn_objects, undo_stack)
          IN  /\ drawn_objects # <<>> => RedoOf(u.objs, u.undone) = h
              /\ undo_stack # <<>> => UndoOf(r.objs, r.undone) = h)
    /\ [][ /\ Undo =>
                  History(drawn_objects', undo_stack')
                      = UndoOf(drawn_objects, undo_stack)
           /\ Redo =>
                  History(drawn_objects', undo_stack')
                      = RedoOf(drawn_objects, undo_stack)
           /\ (Undo \/ Redo) =>
                  Len(drawn_objects') + Len(undo_stack') = LiveShapes
         ]_vars

\* The first shape is drawn and the second undone, the pointer is up: both
\* Undo then Redo and Redo then Undo apply.
C19_Witness ==
    /\ ~mouse_pressed
    /\ Len(drawn_objects) = 1
    /\ Len(undo_stack) = 1
    /\ drawn_objects[1].id = 1
    /\ undo_stack[1].id = 2

\* C20: a tool selection, a color change, a save and a pointer-move while
\* idle leave drawn_objects and undo_stack as they were; a save also leaves
\* the tool, the primary color and mouse_pressed as they were.
C20_NonDrawingEventsKeepHistory ==
    [][ /\ ( \/ SelectRectTool
             \/ SelectBrushTool
             \/ SaveImage
             \/ \E value \in ColorInputs : ChangeColor(value)
             \/ \E p \in MovePoints : MouseMoveIdle(p) ) =>
                UNCHANGED <<drawn_objects, undo_stack>>
        /\ SaveImage =>
                UNCHANGED <<current_tool, primary_color, mouse_pressed>>
      ]_vars

\* A state in the middle of a rectangle gesture, after a color change, with
\* a shape in each stack: a save there has all of them to keep.
C20_Witness ==
    /\ mouse_pressed
    /\ current_tool.kind = "RectTool"
    /\ primary_color = Red
    /\ drawn_objects # <<>>
    /\ undo_stack # <<>>
    /\ ENABLED SaveImage
====
